---- MODULE Spec2Model ----
(***************************************************************************)
(* Model of the concurrent multi-page scraping orchestrator of             *)
(* general-crawler: ConcurrentScraperMixin.main_scraper / scrape_page      *)
(* (src/src/job/mixins.py), the stand-alone OCC orchestrator               *)
(* (src/src/job/occ/scraper.py) and the page scraper get_data they drive.  *)
(*                                                                         *)
(* One page task is a coroutine; every `await` on the crawler (session     *)
(* open, fetch, session close) is a suspension point and therefore the     *)
(* boundary of one action.  The outcome of an awaited call is chosen by    *)
(* the environment (the site and the browser) when the call returns.       *)
(***************************************************************************)
EXTENDS Integers, Sequences, FiniteSets, TLC

\* ------------------------------------------------------------------ bounds
MaxPages == 3
MaxBrowsers == 2
MaxOffers == 2
DetailSpecPages == 2
MaxDateTokens == 3
MaxDigits == 8
MaxSalaryTokens == 3
SitePages == 2
ScriptPages == 3
MaxLegacyPages == 3

\* ------------------------------------------------------------- variables
VARIABLES
    variant,                  \* "mixin" (ConcurrentScraperMixin) or "occ" (occ/scraper.py)
    max_pages,                \* argument of main_scraper
    max_concurrent_browsers,  \* argument of main_scraper
    site_detail,              \* outcomes the site/adapter can give to a detail trigger
    main_pc,                  \* position of main_scraper
    temp_crawler,             \* address of the temporary crawler, 0 when not open
    tasks,                    \* the coroutines handed to asyncio.gather: [page_num, url]
    sem_value,                \* asyncio.Semaphore._value
    sem_waiters,              \* asyncio.Semaphore._waiters (FIFO of task indexes)
    pc,                       \* position of each page task
    crawler,                  \* address of each task's open crawler, 0 when none
    fetch,                    \* the crawler.arun call each task has in flight
    offers,                   \* local variable `offers` of get_data, per task
    idx,                      \* loop index of get_data's enumerate, per task
    ret,                      \* how the task left the crawler block: a returned value or an exception
    failed,                   \* per task, the listing indexes whose detail step failed
    result,                   \* settled result of each task
    late,                     \* some task settled before a task of a lower page number
    results,                  \* list returned by asyncio.gather
    all_offers,               \* main_scraper's all_offers
    successful_pages,         \* main_scraper's successful_pages
    files,                    \* contents of the files written by main_scraper
    site_last_page,           \* the site's last page of listings; a higher page number renders it again
    site_html,                \* per page number, the markups the site can render for that page
    site_outcomes,            \* per page number, how the awaited calls of that page's task can end
    legacy,                   \* the run of the sequential main_scraper of compu_trabajo.py
    unit_fn,                  \* the function called on its own, "none" while the orchestrator runs
    unit_arg,                 \* the arguments of that call
    unit_out                  \* what the call returned or raised

vars == <<variant, max_pages, max_concurrent_browsers, site_detail, main_pc,
          temp_crawler, tasks, sem_value, sem_waiters, pc, crawler, fetch,
          offers, idx, ret, failed, result, late, results, all_offers,
          successful_pages, files, site_last_page, site_html, site_outcomes,
          legacy, unit_fn, unit_arg, unit_out>>

\* The state of a function called on its own.
unit == <<unit_fn, unit_arg, unit_out>>

\* The state of one run of main_scraper.
run == <<variant, max_pages, max_concurrent_browsers, site_detail, main_pc,
         temp_crawler, tasks, sem_value, sem_waiters, pc, crawler, fetch,
         offers, idx, ret, failed, result, late, results, all_offers,
         successful_pages, files>>

\* ---------------------------------------------------------- Python values
\* A Python value that a page task can return or hold: None, False, an
\* exception object, or a list of offers.
NoneVal == [kind |-> "None", items |-> <<>>]
FalseVal == [kind |-> "False", items |-> <<>>]
ExceptionVal == [kind |-> "Exception", items |-> <<>>]
Pending == [kind |-> "pending", items |-> <<>>]
ListVal(s) == [kind |-> "list", items |-> s]

\* The output of a function that has not been called yet.
NotCalled == [kind |-> "not called", items |-> <<>>]

\* crawler.arun(url=self.url, ...) of the sequential scraper of
\* compu_trabajo.py, self.url being the URL of `page`.  Scraper.session_id
\* is the same str for every scraper and every page.  The kind "none" stands
\* for no call in flight.
LegacyArun(kind, page, k) ==
    [kind |-> kind, page |-> page, idx |-> k,
     session_id |-> [service |-> "compu_trabajo", id |-> 0]]

\* The sequential main_scraper before it is called.  pc is its position,
\* crawler the address of its crawler, url the page scraper.url is set to,
\* fetch the crawler.arun call in flight, offers and idx the locals of
\* get_data, all_offers its list, error the exception under way, files the
\* files written; fetched, unavailable and data keep what happened: every
\* fetch issued, the page found not available, what get_data returned for
\* each page.
LegacyIdle ==
    [pc |-> "idle", crawler |-> 0, url |-> 0, fetch |-> LegacyArun("none", 0, 0),
     offers |-> <<>>, idx |-> 0, all_offers |-> Pending, error |-> "",
     files |-> <<>>, fetched |-> <<>>, unavailable |-> 0, data |-> <<>>]

\* Python truthiness of such a value (`if offers:` / `if not offers`).
Truthy(v) == v.kind = "list" /\ Len(v.items) > 0

\* ------------------------------------------------------------------ URLs
\* A URL is a sequence of tokens; the token "hole" is the {page_num}
\* replacement field of str.format.
Lit(s) == [t |-> "lit", s |-> s, n |-> 0]
Num(k) == [t |-> "num", s |-> "", n |-> k]
Hole == [t |-> "hole", s |-> "page_num", n |-> 0]

JOB_URL == <<Lit("JOB_URL")>>

base_job_url(v) == JOB_URL

url_pattern(v) ==
    IF v = "mixin" THEN JOB_URL \o <<Lit("?p="), Hole>>
    ELSE JOB_URL \o <<Lit("?page="), Hole>>

\* url_pattern.format(page_num=n)
Format(pattern, n) ==
    [k \in 1..Len(pattern) |-> IF pattern[k] = Hole THEN Num(n) ELSE pattern[k]]

\* len(range(a, b))
RangeLen(a, b) == IF b > a THEN b - a ELSE 0

\* The list `tasks` main_scraper builds: page 1 first, then range(2, max_pages + 1).
BuildTasks(v, mp) ==
    <<[page_num |-> 1, url |-> base_job_url(v)]>> \o
    [k \in 1..RangeLen(2, mp + 1) |->
        [page_num |-> k + 1, url |-> Format(url_pattern(v), k + 1)]]

\* ------------------------------------------------------------- semaphore
\* Faulty variant of SemInit: one permit too many.
SemInitOneMore(n) == n + 1

\* asyncio.Semaphore(max_concurrent_browsers)
SemInit(n) == n

\* Semaphore.locked(): no permit left, or somebody is already queued.
SemLocked(value, waiters) == value = 0 \/ waiters # <<>>

\* Faulty variant of SemRelease: a permit nobody waits for is lost.
SemReleaseNoIncrement(value, waiters) ==
    IF waiters # <<>>
    THEN [value |-> value, waiters |-> Tail(waiters), woken |-> Head(waiters)]
    ELSE [value |-> value, waiters |-> waiters, woken |-> 0]

\* Faulty variant of SemRelease: the first waiter is not woken.
SemReleaseNoWake(value, waiters) ==
    [value |-> value + 1, waiters |-> waiters, woken |-> 0]

\* Semaphore.release(): the permit goes to the first waiter when there is
\* one (value += 1, _wake_up_next: value -= 1), else back to the counter.
SemRelease(value, waiters) ==
    IF waiters # <<>>
    THEN [value |-> value, waiters |-> Tail(waiters), woken |-> Head(waiters)]
    ELSE [value |-> value + 1, waiters |-> waiters, woken |-> 0]

\* ----------------------------------------------------- crawlers, sessions
\* id(crawler): the address of a live object.  Two objects alive at the same
\* time never share an address; the address of a collected one may be reused.
\* At most max_concurrent_browsers crawlers are alive at once, so that many
\* addresses leave the allocator a free choice, reuse included.
Addresses == 1..MaxBrowsers

LiveAddresses ==
    ({crawler[i] : i \in DOMAIN crawler} \cup {temp_crawler}) \ {0}

FreshAddresses(live) == Addresses \ live

service_name(v) == IF v = "mixin" THEN "compu_trabajo" ELSE "occ"

\* Faulty variant of SessionId: the session id does not depend on the
\* crawler (as in the sequential scraper of compu_trabajo.py).
SessionIdLegacy(v, addr) == [service |-> service_name(v), id |-> 0]

\* BaseScraper.session_id / Scraper.session_id
SessionId(v, addr) == [service |-> service_name(v), id |-> addr]

NoFetch == [kind |-> "none", crawler |-> 0,
            session_id |-> [service |-> "", id |-> 0], idx |-> 0]

\* crawler.arun(url=self.url, config=...(session_id=self.session_id)) issued
\* by the scraper that task i built around its own crawler `addr`.
Arun(kind, addr, k) ==
    [kind |-> kind, crawler |-> addr, session_id |-> SessionId(variant, addr),
     idx |-> k]

\* ------------------------------------------------------------ page scraper
\* One record of the overview extraction: the listing at index k of page p.
\* The key "offer_id" is absent until the detail step sets it.
NoOfferId == [page |-> 0, idx |-> 0]

OverviewOffer(p, k) ==
    [page |-> p, idx |-> k, details |-> FALSE, offer_id |-> NoOfferId,
     current_datetime |-> FALSE]

OverviewList(p, n) == [k \in 1..n |-> OverviewOffer(p, k - 1)]

\* What crawler.arun can return for an overview fetch: result.success and,
\* when it is true, the number of records in result.extracted_content.
OverviewResults ==
    {[success |-> FALSE, n |-> 0]} \cup {[success |-> TRUE, n |-> k] : k \in 0..MaxOffers}

\* What a detail trigger can end in: the fetch succeeds and all three fields
\* are extracted; result_detail.success is false; crawler.arun raises;
\* get_job_details raises; _get_offer_id raises after details was assigned.
DetailOutcomes == {"ok", "unsuccessful", "fetch_raise", "details_raise", "id_raise"}

\* The page of listings the site renders for page number p: a page number
\* past the site's last page renders the last page again.
RenderedPage(p) == IF p > site_last_page THEN site_last_page ELSE p

\* _get_offer_id: the site's identifier of the listing whose detail view
\* was rendered by the click on index offer.idx of the rendered page.
get_offer_id(offer) == [page |-> RenderedPage(offer.page), idx |-> offer.idx]

\* The elements of a rendered listing page the availability checks look
\* for: #btn-next-offer, the offers container (KEY_CSS_SELECTOR) and the
\* listings (BASE_SELECTOR).  A page markup is the set of those present.
PageElements == {"btn_next_offer", "offers_container", "listing"}

PageMarkups == SUBSET PageElements

\* Faulty variant of is_next_page_available: the OCC scraper finds a next
\* page on every page.
is_next_page_available_occ_always(v, html) ==
    IF v = "occ" THEN TRUE
    ELSE "offers_container" \in html /\ "listing" \in html

\* Faulty variant of is_next_page_available: every adapter looks for the
\* listings.
is_next_page_available_by_listings(v, html) ==
    "offers_container" \in html /\ "listing" \in html

\* is_next_page_available on the rendered page `html`: the OCC scraper looks
\* for the next-page control, ComputTrabajoScraper for the offers container
\* and at least one listing.
is_next_page_available(v, html) ==
    IF v = "occ" THEN "btn_next_offer" \in html
    ELSE "offers_container" \in html /\ "listing" \in html

\* A site that can render every page in every way.
AnySite == [p \in 1..MaxPages |-> PageMarkups]

\* How the overview fetch of a page can end: crawler.arun raises, or it
\* returns one of OverviewResults.
OverviewRaises == [raises |-> TRUE, res |-> [success |-> FALSE, n |-> 0]]

OverviewOutcomes ==
    {OverviewRaises} \cup {[raises |-> FALSE, res |-> r] : r \in OverviewResults}

\* How the awaited calls of one page task can end: the session open
\* (__aenter__), the availability check and the overview fetch.
AnyOutcome ==
    [open |-> {"ok", "raise"}, check |-> {"return", "raise"},
     overview |-> OverviewOutcomes]

\* A site and a browser that can answer every call in every way.
AnyOutcomes == [p \in 1..MaxPages |-> AnyOutcome]

\* _get_details on `offer` (a dict mutated in place), then the try/except of
\* get_data around it: the offer stored at offers[idx] afterwards.
get_details(offer, outcome) ==
    CASE outcome = "ok" ->
            [offer EXCEPT !.details = TRUE, !.offer_id = get_offer_id(offer),
                          !.current_datetime = TRUE]
      [] outcome = "id_raise" -> [offer EXCEPT !.details = TRUE]
      [] OTHER -> offer

\* _get_overview: False when result.success is false, else the decoded list.
get_overview(p, res) ==
    IF ~res.success THEN FalseVal ELSE ListVal(OverviewList(p, res.n))

\* Faulty variant of ExceptReturn: a failed page looks not available.
ExceptReturnNone == NoneVal

\* The except clause of scrape_page: `return []`.
ExceptReturn == ListVal(<<>>)

\* The value scrape_page settles with, given how the crawler block was left:
\* an exception reaches the except clause, a returned value is returned.
ExitValue(r) == IF r.kind = "Exception" THEN ExceptReturn ELSE r

\* get_data when the overview is falsy: `return None`.
GetDataNoOverview == NoneVal

\* Faulty variant of get_data: an offer whose detail step gave no details is
\* left out of the list.
get_data_drops_failed(p, res, raises, outs) ==
    IF raises THEN ExceptionVal
    ELSE LET ov == get_overview(p, res) IN
         IF ~Truthy(ov) THEN GetDataNoOverview
         ELSE ListVal(SelectSeq(
                 [k \in 1..Len(ov.items) |-> get_details(ov.items[k], outs[k])],
                 LAMBDA o : o.details))

\* get_data as one call: None when the overview is falsy, else the overview
\* list after the detail step was run on every offer; an exception of the
\* overview fetch leaves get_data.  outs[k] is how the k-th detail trigger ends.
get_data(p, res, raises, outs) ==
    IF raises THEN ExceptionVal
    ELSE LET ov == get_overview(p, res) IN
         IF ~Truthy(ov) THEN GetDataNoOverview
         ELSE ListVal([k \in 1..Len(ov.items) |-> get_details(ov.items[k], outs[k])])

\* Faulty variant of ScrapePageReturn: what get_data gave is passed on.
ScrapePageReturnAsIs(data) == data

\* The tail of scrape_page: `if offers: return offers else: return []`.
ScrapePageReturn(data) == IF Truthy(data) THEN data ELSE ListVal(<<>>)

\* scrape_page as one call on page page_num, given how each awaited call
\* ends: a.open and a.check are "ok"/"return" or "raise", a.available is what
\* the availability check returns, a.overview how the overview fetch ends
\* and outs[k] how the k-th detail trigger ends.
scrape_page(page_num, a, outs) ==
    IF a.open = "raise" THEN ExitValue(ExceptionVal)
    ELSE IF page_num > 1 /\ a.check = "raise" THEN ExitValue(ExceptionVal)
    ELSE IF page_num > 1 /\ ~a.available THEN NoneVal
    ELSE LET data == get_data(page_num, a.overview.res, a.overview.raises, outs) IN
         IF data.kind = "Exception" THEN ExitValue(data)
         ELSE ScrapePageReturn(data)

\* ------------------------------------------------------ result processing
\* Faulty variant of ProcessResults: a None result does not stop the loop.
RECURSIVE ProcessNoBreak(_, _, _, _)
ProcessNoBreak(rs, i, all, ok) ==
    IF i > Len(rs) THEN [all_offers |-> all, successful_pages |-> ok]
    ELSE IF rs[i].kind = "list"
         THEN ProcessNoBreak(rs, i + 1, all \o rs[i].items, ok + 1)
         ELSE ProcessNoBreak(rs, i + 1, all, ok)

\* Faulty variant of ProcessResults: a page's offers are put in front.
RECURSIVE ProcessPrepend(_, _, _, _)
ProcessPrepend(rs, i, all, ok) ==
    IF i > Len(rs) THEN [all_offers |-> all, successful_pages |-> ok]
    ELSE IF rs[i].kind = "Exception" THEN ProcessPrepend(rs, i + 1, all, ok)
    ELSE IF rs[i].kind = "None" THEN [all_offers |-> all, successful_pages |-> ok]
    ELSE IF rs[i].kind = "list"
         THEN ProcessPrepend(rs, i + 1, rs[i].items \o all, ok + 1)
         ELSE ProcessPrepend(rs, i + 1, all, ok)

\* Faulty variant of ProcessResults: the page whose result is None is
\* counted as processed.
RECURSIVE ProcessCountsNone(_, _, _, _)
ProcessCountsNone(rs, i, all, ok) ==
    IF i > Len(rs) THEN [all_offers |-> all, successful_pages |-> ok]
    ELSE IF rs[i].kind = "Exception" THEN ProcessCountsNone(rs, i + 1, all, ok)
    ELSE IF rs[i].kind = "None" THEN [all_offers |-> all, successful_pages |-> ok + 1]
    ELSE IF rs[i].kind = "list"
         THEN ProcessCountsNone(rs, i + 1, all \o rs[i].items, ok + 1)
         ELSE ProcessCountsNone(rs, i + 1, all, ok)

\* The for loop of main_scraper over enumerate(results).
RECURSIVE ProcessResults(_, _, _, _)
ProcessResults(rs, i, all, ok) ==
    IF i > Len(rs) THEN [all_offers |-> all, successful_pages |-> ok]
    ELSE IF rs[i].kind = "Exception" THEN ProcessResults(rs, i + 1, all, ok)
    ELSE IF rs[i].kind = "None" THEN [all_offers |-> all, successful_pages |-> ok]
    ELSE IF rs[i].kind = "list"
         THEN ProcessResults(rs, i + 1, all \o rs[i].items, ok + 1)
         ELSE ProcessResults(rs, i + 1, all, ok)

\* Faulty variant of ShouldWrite: the file is written in every run.
ShouldWriteAlways(all) == TRUE

\* `if not all_offers: return` -- whether the run goes on to write the file.
ShouldWrite(all) == all # <<>>

\* main_scraper from the launch on, as one call: every page task's result
\* by scrape_page, in the order of `tasks`, then the loop over the results.
\* answers[p] is how the awaited calls of page p end.
main_scraper(mp, answers, outs) ==
    LET n == 1 + RangeLen(2, mp + 1)
        rs == [i \in 1..n |-> scrape_page(i, answers[i], outs)]
        out == ProcessResults(rs, 1, <<>>, 0)
    IN [all_offers |-> out.all_offers,
        successful_pages |-> out.successful_pages,
        writes |-> ShouldWrite(out.all_offers)]

\* ------------------------------------------------------------------ Init
Variants == {"mixin", "occ"}

InitCommon ==
    /\ variant \in Variants
    /\ main_pc = IF variant = "mixin" THEN "start" ELSE "launch"
    /\ temp_crawler = 0
    /\ tasks = <<>>
    /\ sem_value = 0
    /\ sem_waiters = <<>>
    /\ pc = <<>>
    /\ crawler = <<>>
    /\ fetch = <<>>
    /\ offers = <<>>
    /\ idx = <<>>
    /\ ret = <<>>
    /\ failed = <<>>
    /\ result = <<>>
    /\ late = FALSE
    /\ results = <<>>
    /\ all_offers = <<>>
    /\ successful_pages = 0
    /\ files = <<>>
    /\ legacy = LegacyIdle
    /\ unit_fn = "none"
    /\ unit_arg = <<>>
    /\ unit_out = NotCalled

\* The orchestrator under every page count and concurrency cap, on a site
\* whose detail views render and that has a page of its own for every page
\* number asked for.
Init ==
    /\ InitCommon
    /\ max_pages \in 0..MaxPages
    /\ max_concurrent_browsers \in 1..MaxBrowsers
    /\ site_detail = {"ok"}
    /\ site_last_page = MaxPages
    /\ site_html = AnySite
    /\ site_outcomes = AnyOutcomes

\* ------------------------------------------------------- main_scraper, 1
\* `async with AsyncWebCrawler(...) as temp_crawler:` -- __aenter__ returns
\* or raises; a raise leaves main_scraper.
TempOpen ==
    /\ main_pc = "start"
    /\ \/ /\ \E a \in FreshAddresses(LiveAddresses) : temp_crawler' = a
          /\ main_pc' = "temp"
       \/ /\ main_pc' = "failed"
          /\ UNCHANGED temp_crawler
    /\ UNCHANGED <<unit, site_last_page, site_html, site_outcomes, legacy,
                   variant, max_pages, max_concurrent_browsers, site_detail,
                   tasks, sem_value, sem_waiters, pc, crawler, fetch, offers,
                   idx, ret, failed, result, late, results, all_offers,
                   successful_pages, files>>

\* service_name is read and the temporary crawler's __aexit__ returns.
TempClose ==
    /\ main_pc = "temp"
    /\ temp_crawler' = 0
    /\ main_pc' = "launch"
    /\ UNCHANGED <<unit, site_last_page, site_html, site_outcomes, legacy,
                   variant, max_pages, max_concurrent_browsers, site_detail,
                   tasks, sem_value, sem_waiters, pc, crawler, fetch, offers,
                   idx, ret, failed, result, late, results, all_offers,
                   successful_pages, files>>

\* The semaphore is created, the task list is built and handed to
\* asyncio.gather; main_scraper then waits for all of them.
Launch ==
    /\ main_pc = "launch"
    /\ sem_value' = SemInit(max_concurrent_browsers)
    /\ sem_waiters' = <<>>
    /\ tasks' = BuildTasks(variant, max_pages)
    /\ LET n == Len(tasks') IN
        /\ pc' = [i \in 1..n |-> "new"]
        /\ crawler' = [i \in 1..n |-> 0]
        /\ fetch' = [i \in 1..n |-> NoFetch]
        /\ offers' = [i \in 1..n |-> <<>>]
        /\ idx' = [i \in 1..n |-> 0]
        /\ ret' = [i \in 1..n |-> Pending]
        /\ failed' = [i \in 1..n |-> {}]
        /\ result' = [i \in 1..n |-> Pending]
    /\ main_pc' = "gather"
    /\ UNCHANGED <<unit, site_last_page, site_html, site_outcomes, legacy,
                   variant, max_pages, max_concurrent_browsers, site_detail,
                   temp_crawler, late, results, all_offers, successful_pages,
                   files>>

\* ------------------------------------------------------------ scrape_page
Task == DOMAIN pc

\* The task leaves `async with semaphore` with value v: the permit is
\* released (and handed to the first waiter) and the task settles.
Settle(i, v) ==
    LET r == SemRelease(sem_value, sem_waiters) IN
    /\ sem_value' = r.value
    /\ sem_waiters' = r.waiters
    /\ pc' = [j \in Task |-> IF j = i THEN "done"
                             ELSE IF j = r.woken THEN "opening" ELSE pc[j]]
    /\ result' = [result EXCEPT ![i] = v]
    /\ late' = (late \/ \E j \in Task : j < i /\ pc[j] # "done")

\* The task's first step: `async with semaphore`.  The event loop starts the
\* tasks in the order gather received them; an acquire that finds the
\* semaphore locked queues the task behind the earlier waiters.
Acquire(i) ==
    /\ main_pc = "gather"
    /\ pc[i] = "new"
    /\ \A j \in Task : j < i => pc[j] # "new"
    /\ IF SemLocked(sem_value, sem_waiters)
       THEN /\ sem_waiters' = Append(sem_waiters, i)
            /\ pc' = [pc EXCEPT ![i] = "waiting"]
            /\ UNCHANGED sem_value
       ELSE /\ sem_value' = sem_value - 1
            /\ pc' = [pc EXCEPT ![i] = "opening"]
            /\ UNCHANGED sem_waiters
    /\ UNCHANGED <<unit, site_last_page, site_html, site_outcomes, legacy,
                   variant, max_pages, max_concurrent_browsers, site_detail,
                   main_pc, temp_crawler, tasks, crawler, fetch, offers, idx,
                   ret, failed, result, late, results, all_offers,
                   successful_pages, files>>

\* Faulty variant of OpenCrawler: every page starts with the overview fetch.
OpenCrawlerNoCheck(i) ==
    /\ pc[i] = "opening"
    /\ "ok" \in site_outcomes[tasks[i].page_num].open
    /\ \E a \in FreshAddresses(LiveAddresses) :
        /\ crawler' = [crawler EXCEPT ![i] = a]
        /\ pc' = [pc EXCEPT ![i] = "overview"]
        /\ fetch' = [fetch EXCEPT ![i] = Arun("overview", a, 0)]
    /\ UNCHANGED <<unit, site_last_page, site_html, site_outcomes, legacy,
                   variant, max_pages, max_concurrent_browsers, site_detail,
                   main_pc, temp_crawler, tasks, sem_value, sem_waiters,
                   offers, idx, ret, failed, result, late, results, all_offers,
                   successful_pages, files>>

\* `async with AsyncWebCrawler(...) as crawler` returns: the scraper is
\* built and issues its first fetch (availability check for page_num > 1,
\* else the overview fetch of get_data).
OpenCrawler(i) ==
    /\ pc[i] = "opening"
    /\ "ok" \in site_outcomes[tasks[i].page_num].open
    /\ \E a \in FreshAddresses(LiveAddresses) :
        /\ crawler' = [crawler EXCEPT ![i] = a]
        /\ IF tasks[i].page_num > 1
           THEN /\ pc' = [pc EXCEPT ![i] = "check"]
                /\ fetch' = [fetch EXCEPT ![i] = Arun("available", a, 0)]
           ELSE /\ pc' = [pc EXCEPT ![i] = "overview"]
                /\ fetch' = [fetch EXCEPT ![i] = Arun("overview", a, 0)]
    /\ UNCHANGED <<unit, site_last_page, site_html, site_outcomes, legacy,
                   variant, max_pages, max_concurrent_browsers, site_detail,
                   main_pc, temp_crawler, tasks, sem_value, sem_waiters,
                   offers, idx, ret, failed, result, late, results, all_offers,
                   successful_pages, files>>

\* __aenter__ raises: no session was opened; the except clause returns and
\* the semaphore is left.
OpenCrawlerRaises(i) ==
    /\ pc[i] = "opening"
    /\ "raise" \in site_outcomes[tasks[i].page_num].open
    /\ ret' = [ret EXCEPT ![i] = ExceptionVal]
    /\ Settle(i, ExitValue(ExceptionVal))
    /\ UNCHANGED <<unit, site_last_page, site_html, site_outcomes, legacy,
                   variant, max_pages, max_concurrent_browsers, site_detail,
                   main_pc, temp_crawler, tasks, crawler, fetch, offers, idx,
                   failed, results, all_offers, successful_pages, files>>

\* The task reaches a return statement (or an exception leaves the block)
\* inside `async with ... as crawler`: __aexit__ is awaited next.
Leave(i, v) ==
    /\ pc' = [pc EXCEPT ![i] = "closing"]
    /\ fetch' = [fetch EXCEPT ![i] = NoFetch]
    /\ ret' = [ret EXCEPT ![i] = v]

\* `await scraper.is_next_page_available()` returns for the page the site
\* rendered, or raises.
AvailabilityReturn(i) ==
    /\ pc[i] = "check"
    /\ \/ /\ "raise" \in site_outcomes[tasks[i].page_num].check
          /\ Leave(i, ExceptionVal)
       \/ /\ "return" \in site_outcomes[tasks[i].page_num].check
          /\ \E html \in site_html[tasks[i].page_num] :
            IF is_next_page_available(variant, html)
            THEN /\ pc' = [pc EXCEPT ![i] = "overview"]
                 /\ fetch' = [fetch EXCEPT ![i] = Arun("overview", crawler[i], 0)]
                 /\ UNCHANGED ret
            ELSE Leave(i, NoneVal)
    /\ UNCHANGED <<unit, site_last_page, site_html, site_outcomes, legacy,
                   variant, max_pages, max_concurrent_browsers, site_detail,
                   main_pc, temp_crawler, tasks, sem_value, sem_waiters,
                   crawler, offers, idx, failed, result, late, results,
                   all_offers, successful_pages, files>>

\* get_data after `await self._get_overview()`: the overview fetch returns
\* (unsuccessful, or with n listings) or raises.
OverviewReturn(i) ==
    /\ pc[i] = "overview"
    /\ \E o \in site_outcomes[tasks[i].page_num].overview :
        IF o.raises
        THEN /\ Leave(i, ExceptionVal)
             /\ UNCHANGED <<offers, idx>>
        ELSE
            LET ov == get_overview(tasks[i].page_num, o.res) IN
            IF ~Truthy(ov)
            THEN \* get_data returns None
                 /\ Leave(i, ScrapePageReturn(GetDataNoOverview))
                 /\ UNCHANGED <<offers, idx>>
            ELSE /\ offers' = [offers EXCEPT ![i] = ov.items]
                 /\ idx' = [idx EXCEPT ![i] = 0]
                 /\ pc' = [pc EXCEPT ![i] = "detail"]
                 /\ fetch' = [fetch EXCEPT ![i] = Arun("detail", crawler[i], 0)]
                 /\ UNCHANGED ret
    /\ UNCHANGED <<unit, site_last_page, site_html, site_outcomes, legacy,
                   variant, max_pages, max_concurrent_browsers, site_detail,
                   main_pc, temp_crawler, tasks, sem_value, sem_waiters,
                   crawler, failed, result, late, results, all_offers,
                   successful_pages, files>>

\* One iteration of get_data's loop: the detail trigger of offers[idx]
\* returns; the next one is issued, or get_data returns the list.
DetailReturn(i) ==
    /\ pc[i] = "detail"
    /\ \E outcome \in site_detail :
        LET k == idx[i]
            updated == [offers[i] EXCEPT ![k + 1] = get_details(@, outcome)]
        IN
        /\ offers' = [offers EXCEPT ![i] = updated]
        /\ idx' = [idx EXCEPT ![i] = k + 1]
        /\ failed' = [failed EXCEPT ![i] = IF outcome = "ok" THEN @ ELSE @ \cup {k}]
        /\ IF k + 1 < Len(updated)
           THEN /\ fetch' = [fetch EXCEPT ![i] = Arun("detail", crawler[i], k + 1)]
                /\ UNCHANGED <<pc, ret>>
           ELSE Leave(i, ScrapePageReturn(ListVal(updated)))
    /\ UNCHANGED <<unit, site_last_page, site_html, site_outcomes, legacy,
                   variant, max_pages, max_concurrent_browsers, site_detail,
                   main_pc, temp_crawler, tasks, sem_value, sem_waiters,
                   crawler, result, late, results, all_offers,
                   successful_pages, files>>

\* Faulty variant of CloseCrawler: the permit is released and the task
\* settles while its session stays open.
CloseCrawlerKeepsSession(i) ==
    /\ pc[i] = "closing"
    /\ Settle(i, ExitValue(ret[i]))
    /\ UNCHANGED <<unit, site_last_page, site_html, site_outcomes, legacy,
                   variant, max_pages, max_concurrent_browsers, site_detail,
                   main_pc, temp_crawler, tasks, crawler, fetch, offers, idx,
                   ret, failed, results, all_offers, successful_pages, files>>

\* The crawler's __aexit__ returns (teardown itself is taken not to raise):
\* the session is closed, then the except clause runs if an exception is
\* under way, the semaphore is left and the task settles.
CloseCrawler(i) ==
    /\ pc[i] = "closing"
    /\ crawler' = [crawler EXCEPT ![i] = 0]
    /\ Settle(i, ExitValue(ret[i]))
    /\ UNCHANGED <<unit, site_last_page, site_html, site_outcomes, legacy,
                   variant, max_pages, max_concurrent_browsers, site_detail,
                   main_pc, temp_crawler, tasks, fetch, offers, idx, ret,
                   failed, results, all_offers, successful_pages, files>>

\* ------------------------------------------------------- main_scraper, 2
\* Faulty variant of GatherReturn: main_scraper goes on as soon as one task
\* has settled.
GatherReturnFirstCompleted ==
    /\ main_pc = "gather"
    /\ \E i \in Task : pc[i] = "done"
    /\ results' = [i \in 1..Len(tasks) |-> result[i]]
    /\ main_pc' = "aggregate"
    /\ UNCHANGED <<unit, site_last_page, site_html, site_outcomes, legacy,
                   variant, max_pages, max_concurrent_browsers, site_detail,
                   temp_crawler, tasks, sem_value, sem_waiters, pc, crawler,
                   fetch, offers, idx, ret, failed, result, late, all_offers,
                   successful_pages, files>>

\* asyncio.gather returns once every task has settled: one entry per task,
\* in the order of `tasks`.
GatherReturn ==
    /\ main_pc = "gather"
    /\ \A i \in Task : pc[i] = "done"
    /\ results' = [i \in 1..Len(tasks) |-> result[i]]
    /\ main_pc' = "aggregate"
    /\ UNCHANGED <<unit, site_last_page, site_html, site_outcomes, legacy,
                   variant, max_pages, max_concurrent_browsers, site_detail,
                   temp_crawler, tasks, sem_value, sem_waiters, pc, crawler,
                   fetch, offers, idx, ret, failed, result, late, all_offers,
                   successful_pages, files>>

\* The results are processed, the totals reported and the file written
\* unless all_offers is empty.
Aggregate ==
    /\ main_pc = "aggregate"
    /\ LET out == ProcessResults(results, 1, <<>>, 0) IN
        /\ all_offers' = out.all_offers
        /\ successful_pages' = out.successful_pages
        /\ files' = IF ShouldWrite(out.all_offers)
                    THEN Append(files, out.all_offers)
                    ELSE files
    /\ main_pc' = "done"
    /\ UNCHANGED <<unit, site_last_page, site_html, site_outcomes, legacy,
                   variant, max_pages, max_concurrent_browsers, site_detail,
                   temp_crawler, tasks, sem_value, sem_waiters, pc, crawler,
                   fetch, offers, idx, ret, failed, result, late, results>>

Next ==
    \/ TempOpen
    \/ TempClose
    \/ Launch
    \/ \E i \in Task : Acquire(i)
    \/ \E i \in Task : OpenCrawler(i)
    \/ \E i \in Task : OpenCrawlerRaises(i)
    \/ \E i \in Task : AvailabilityReturn(i)
    \/ \E i \in Task : OverviewReturn(i)
    \/ \E i \in Task : DetailReturn(i)
    \/ \E i \in Task : CloseCrawler(i)
    \/ GatherReturn
    \/ Aggregate

Spec == Init /\ [][Next]_vars

\* The event loop runs every task that is ready and every awaited call of
\* the crawler returns or raises: some enabled step is eventually taken.
FairSpec == Spec /\ WF_vars(Next)

\* One session at a time on a site whose detail views can fail in every
\* way and whose listings end at any page: the page scraper get_data under
\* all detail outcomes.
InitDetail ==
    /\ InitCommon
    /\ max_pages \in 1..DetailSpecPages
    /\ max_concurrent_browsers = 1
    /\ site_detail = DetailOutcomes
    /\ site_last_page \in 1..DetailSpecPages
    /\ site_html = AnySite
    /\ site_outcomes = AnyOutcomes

DetailSpec == InitDetail /\ [][Next]_vars

\* The orchestrator on a site that renders each page in one way: what the
\* availability check of a page finds is fixed by the site.
InitSite ==
    /\ InitCommon
    /\ max_pages \in 1..SitePages
    /\ max_concurrent_browsers \in 1..MaxBrowsers
    /\ site_detail = {"ok"}
    /\ site_last_page = SitePages
    /\ site_html \in [1..SitePages -> {{m} : m \in PageMarkups}]
    /\ site_outcomes = AnyOutcomes

SiteSpec == InitSite /\ [][Next]_vars

\* How the awaited calls of one page end, when each ends in one way.  A call
\* that is not reached has its first answer: after a session open that
\* raises nothing else is awaited, after a check that raises or returns
\* false no overview is fetched.
PageAnswers ==
    {a \in [open : {"ok", "raise"}, check : {"return", "raise"},
            available : BOOLEAN, overview : OverviewOutcomes] :
        /\ a.open = "raise" => a.check = "return"
        /\ (a.open = "raise" \/ a.check = "raise") => a.available
        /\ (a.open = "raise" \/ a.check = "raise" \/ ~a.available) =>
              a.overview = OverviewRaises}

\* Page 1 is not availability-checked.
Scripts ==
    {sc \in [1..ScriptPages -> PageAnswers] :
        sc[1].check = "return" /\ sc[1].available}

\* The orchestrator on a site and a browser that answer the calls of each
\* page in one way, the same way for both orchestrators: a page found
\* available renders every element the adapters look for, a page found not
\* available none of them.
InitScript ==
    /\ InitCommon
    /\ max_pages \in 0..ScriptPages
    /\ max_concurrent_browsers \in 1..MaxBrowsers
    /\ site_detail = {"ok"}
    /\ site_last_page = ScriptPages
    /\ \E sc \in Scripts :
        /\ site_html = [p \in 1..ScriptPages |->
                          {IF sc[p].available THEN PageElements ELSE {}}]
        /\ site_outcomes = [p \in 1..ScriptPages |->
                              [open |-> {sc[p].open}, check |-> {sc[p].check},
                               overview |-> {sc[p].overview}]]

ScriptSpec == InitScript /\ [][Next]_vars

\* ------------------------------------------------ functions on their own
\* No run of any main_scraper is under way.
InitIdle ==
    /\ variant = "mixin"
    /\ max_pages = 0
    /\ max_concurrent_browsers = 1
    /\ site_detail = DetailOutcomes
    /\ main_pc = "idle"
    /\ temp_crawler = 0
    /\ tasks = <<>>
    /\ sem_value = 0
    /\ sem_waiters = <<>>
    /\ pc = <<>>
    /\ crawler = <<>>
    /\ fetch = <<>>
    /\ offers = <<>>
    /\ idx = <<>>
    /\ ret = <<>>
    /\ failed = <<>>
    /\ result = <<>>
    /\ late = FALSE
    /\ results = <<>>
    /\ all_offers = <<>>
    /\ successful_pages = 0
    /\ files = <<>>
    /\ site_html = AnySite
    /\ site_outcomes = AnyOutcomes
    /\ unit_out = NotCalled
    /\ legacy = LegacyIdle

\* A scraper is set to the URL of some page and get_data is about to be
\* awaited; the site answers the overview fetch and every detail trigger in
\* any of the ways it can.
InitPage ==
    /\ InitIdle
    /\ site_last_page \in 1..MaxPages
    /\ unit_fn = "get_data"
    /\ unit_arg \in [page_num : 1..MaxPages,
                      overview : OverviewResults,
                      overview_raises : BOOLEAN,
                      details : [1..MaxOffers -> DetailOutcomes]]

\* `await scraper.get_data()` returns or raises.
GetDataCall ==
    /\ unit_fn = "get_data"
    /\ unit_out = NotCalled
    /\ unit_out' = get_data(unit_arg.page_num, unit_arg.overview,
                            unit_arg.overview_raises, unit_arg.details)
    /\ UNCHANGED <<run, site_last_page, site_html, site_outcomes, legacy,
                   unit_fn, unit_arg>>

PageNext == GetDataCall

PageSpec == InitPage /\ [][PageNext]_vars

\* ------------------------------------------------------- get_job_details
\* The sub-elements of a rendered detail view that get_job_details looks
\* for.  A markup is the set of those present:
\*   container    div.box_detail / #job-detail-container
\*   sidebar      div.fs14 inside the container
\*   description  div.t_word_wrap / the paragraph holding "descripción"
\*   req_heading  the paragraph holding "requisitos" (OCC)
\*   req_list     ul.disc / the sibling that follows the heading
\*   salary_p     a sidebar paragraph, salary_icon its span.i_money
\*   id_paragraph the paragraph holding "id:" (OCC)
\*   bubble       div.opt_bubble, data_url its data-url attribute
Elements ==
    {"container", "sidebar", "description", "req_heading", "req_list",
     "salary_p", "salary_icon", "id_paragraph", "bubble", "data_url"}

\* A sub-element is rendered inside the container, an attribute or a span
\* inside its element.
Markups ==
    {m \in SUBSET Elements :
        /\ (m # {} => "container" \in m)
        /\ ("data_url" \in m => "bubble" \in m)
        /\ ("salary_icon" \in m => "salary_p" \in m)}

Adapters == {"compu_trabajo", "occ", "compu_trabajo_legacy"}

\* What get_job_details gives: a dict, each key of which is absent, None,
\* "", {} or a text, or an exception.
Raised(e) ==
    [kind |-> "raise", exc |-> e, description |-> "absent",
     requirements |-> "absent", job_url |-> "absent", salary |-> "absent"]

DetailDict(d, r, u, sal) ==
    [kind |-> "dict", exc |-> "", description |-> d, requirements |-> r,
     job_url |-> u, salary |-> sal]

EmptyDict == DetailDict("absent", "absent", "absent", "absent")

\* ComputTrabajoScraper.get_job_details
ComputTrabajoDetails(m) ==
    IF "container" \notin m THEN EmptyDict
    ELSE IF "sidebar" \notin m THEN EmptyDict
    ELSE IF "bubble" \in m /\ "data_url" \notin m THEN Raised("KeyError")
    ELSE DetailDict(IF "description" \in m THEN "text" ELSE "empty",
                    IF "req_list" \in m THEN "text" ELSE "empty",
                    IF "bubble" \in m THEN "text" ELSE "None",
                    IF "salary_icon" \in m THEN "text" ELSE "absent")

\* Scraper.get_job_details of occ/scraper.py: _get_salary, _get_description,
\* _get_offer_id and _get_requirements on self.box_detail, in that order.
OccDetails(m) ==
    IF "container" \notin m THEN Raised("AttributeError")
    ELSE IF "req_heading" \in m /\ "req_list" \notin m THEN Raised("AttributeError")
    ELSE DetailDict(IF "description" \in m THEN "text" ELSE "empty dict",
                    IF "req_heading" \in m THEN "text" ELSE "None",
                    IF "id_paragraph" \in m THEN "text" ELSE "None",
                    IF "salary_icon" \in m THEN "text" ELSE "None")

\* get_job_details of compu_trabajo.py
LegacyDetails(m) ==
    IF "container" \notin m THEN Raised("AttributeError")
    ELSE IF "sidebar" \notin m THEN EmptyDict
    ELSE IF "description" \notin m THEN Raised("AttributeError")
    ELSE IF "req_list" \notin m THEN Raised("AttributeError")
    ELSE IF "salary_p" \in m /\ "salary_icon" \notin m THEN Raised("AttributeError")
    ELSE DetailDict("text", "text", "absent",
                    IF "salary_icon" \in m THEN "text" ELSE "absent")

get_job_details(adapter, m) ==
    CASE adapter = "compu_trabajo" -> ComputTrabajoDetails(m)
      [] adapter = "occ" -> OccDetails(m)
      [] adapter = "compu_trabajo_legacy" -> LegacyDetails(m)

\* A detail view was rendered with any subset of its sub-elements and
\* get_job_details is about to be called on it.
InitExtract ==
    /\ InitIdle
    /\ site_last_page = 1
    /\ unit_fn = "get_job_details"
    /\ unit_arg \in [adapter : Adapters, markup : Markups]

GetJobDetailsCall ==
    /\ unit_fn = "get_job_details"
    /\ unit_out = NotCalled
    /\ unit_out' = get_job_details(unit_arg.adapter, unit_arg.markup)
    /\ UNCHANGED <<run, site_last_page, site_html, site_outcomes, legacy,
                   unit_fn, unit_arg>>

ExtractNext == GetJobDetailsCall

ExtractSpec == InitExtract /\ [][ExtractNext]_vars

\* ---------------------------------------------------------------- strings
\* A Python str is the sequence of its characters.  Text(t) is the str
\* written t in the source or on the site.
Text(t) ==
    CASE t = "ayer" -> <<"a", "y", "e", "r">>
      [] t = "hora" -> <<"h", "o", "r", "a">>
      [] t = "horas" -> <<"h", "o", "r", "a", "s">>
      [] t = "minuto" -> <<"m", "i", "n", "u", "t", "o">>
      [] t = "minutos" -> <<"m", "i", "n", "u", "t", "o", "s">>
      [] t = "día" -> <<"d", "í", "a">>
      [] t = "días" -> <<"d", "í", "a", "s">>
      [] t = "mensual" -> <<"m", "e", "n", "s", "u", "a", "l">>
      [] t = "comisión" -> <<"c", "o", "m", "i", "s", "i", "ó", "n">>
      [] t = "Hace" -> <<"H", "a", "c", "e">>
      [] t = "de" -> <<"d", "e">>
      [] t = "hoy" -> <<"h", "o", "y">>
      [] t = "1" -> <<"1">>
      [] t = "3" -> <<"3">>
      [] t = "15" -> <<"1", "5">>
      [] t = "2025" -> <<"2", "0", "2", "5">>
      [] t = "$15,000" -> <<"$", "1", "5", ",", "0", "0", "0">>
      [] t = "$20" -> <<"$", "2", "0">>
      [] t = "(Mensual)" -> <<"(", "M", "e", "n", "s", "u", "a", "l", ")">>
      [] t = "por hora" -> <<"p", "o", "r", " ", "h", "o", "r", "a">>
      [] t = "por horas" -> <<"p", "o", "r", " ", "h", "o", "r", "a", "s">>
      [] t = "más comisión" -> <<"m", "á", "s", " ", "c", "o", "m", "i", "s", "i", "ó", "n">>
      [] t = "a convenir" -> <<"a", " ", "c", "o", "n", "v", "e", "n", "i", "r">>
      [] t = "enero" -> <<"e", "n", "e", "r", "o">>
      [] t = "febrero" -> <<"f", "e", "b", "r", "e", "r", "o">>
      [] t = "marzo" -> <<"m", "a", "r", "z", "o">>
      [] t = "abril" -> <<"a", "b", "r", "i", "l">>
      [] t = "mayo" -> <<"m", "a", "y", "o">>
      [] t = "junio" -> <<"j", "u", "n", "i", "o">>
      [] t = "julio" -> <<"j", "u", "l", "i", "o">>
      [] t = "agosto" -> <<"a", "g", "o", "s", "t", "o">>
      [] t = "septiembre" -> <<"s", "e", "p", "t", "i", "e", "m", "b", "r", "e">>
      [] t = "octubre" -> <<"o", "c", "t", "u", "b", "r", "e">>
      [] t = "noviembre" -> <<"n", "o", "v", "i", "e", "m", "b", "r", "e">>
      [] t = "diciembre" -> <<"d", "i", "c", "i", "e", "m", "b", "r", "e">>

Digits == {"0", "1", "2", "3", "4", "5", "6", "7", "8", "9"}

\* c.isdigit()
isdigit(c) == c \in Digits

DigitValue(c) ==
    CASE c = "0" -> 0 [] c = "1" -> 1 [] c = "2" -> 2 [] c = "3" -> 3
      [] c = "4" -> 4 [] c = "5" -> 5 [] c = "6" -> 6 [] c = "7" -> 7
      [] c = "8" -> 8 [] c = "9" -> 9

\* str.lower() on the upper-case letters the site's texts start with.
lower_char(c) ==
    CASE c = "A" -> "a" [] c = "H" -> "h" [] c = "M" -> "m" [] OTHER -> c

lower(s) == [i \in 1..Len(s) |-> lower_char(s[i])]

\* `sub in s` for two strs.
In(sub, s) ==
    \E i \in 0..(Len(s) - Len(sub)) : SubSeq(s, i + 1, i + Len(sub)) = sub

\* str.strip()
RECURSIVE lstrip(_)
lstrip(s) == IF s # <<>> /\ Head(s) = " " THEN lstrip(Tail(s)) ELSE s

RECURSIVE rstrip(_)
rstrip(s) ==
    IF s # <<>> /\ s[Len(s)] = " " THEN rstrip(SubSeq(s, 1, Len(s) - 1)) ELSE s

strip(s) == rstrip(lstrip(s))

\* str.split(): the maximal runs of non-blank characters.
RECURSIVE SplitFrom(_, _, _, _)
SplitFrom(s, i, word, acc) ==
    IF i > Len(s) THEN (IF word = <<>> THEN acc ELSE Append(acc, word))
    ELSE IF s[i] = " "
         THEN SplitFrom(s, i + 1, <<>>, IF word = <<>> THEN acc ELSE Append(acc, word))
         ELSE SplitFrom(s, i + 1, Append(word, s[i]), acc)

split(s) == SplitFrom(s, 1, <<>>, <<>>)

\* _get_digit: "".join([el for el in list(raw) if el.isdigit()])
get_digit(s) == SelectSeq(s, isdigit)

\* int(digits) for a non-empty str of digits.
RECURSIVE IntOf(_)
IntOf(digits) ==
    IF digits = <<>> THEN 0
    ELSE 10 * IntOf(SubSeq(digits, 1, Len(digits) - 1)) + DigitValue(digits[Len(digits)])

\* The text of a site string made of the phrases ts, one blank between two.
RECURSIVE Join(_)
Join(ts) ==
    IF ts = <<>> THEN <<>>
    ELSE IF Len(ts) = 1 THEN Text(ts[1])
    ELSE Text(ts[1]) \o <<" ">> \o Join(Tail(ts))

\* --------------------------------------------------------------- datetime
\* datetime values of the standard library: a datetime is a record of its
\* calendar fields; a raised exception has the same shape.
Datetime(y, mo, d, h, mi, sec, us) ==
    [kind |-> "datetime", exc |-> "", msg |-> "", year |-> y, month |-> mo,
     day |-> d, hour |-> h, minute |-> mi, second |-> sec, microsecond |-> us]

Raise(e, m) ==
    [kind |-> "raise", exc |-> e, msg |-> m, year |-> 0, month |-> 0,
     day |-> 0, hour |-> 0, minute |-> 0, second |-> 0, microsecond |-> 0]

IsLeap(y) == (y % 4 = 0 /\ y % 100 # 0) \/ y % 400 = 0

DaysInMonth(y, m) ==
    CASE m = 2 -> (IF IsLeap(y) THEN 29 ELSE 28)
      [] m \in {4, 6, 9, 11} -> 30
      [] OTHER -> 31

DaysBeforeYear(y) ==
    LET p == y - 1 IN p * 365 + (p \div 4) - (p \div 100) + (p \div 400)

RECURSIVE DaysBeforeMonth(_, _)
DaysBeforeMonth(y, m) ==
    IF m = 1 THEN 0 ELSE DaysBeforeMonth(y, m - 1) + DaysInMonth(y, m - 1)

\* date.toordinal(): day 1 is 0001-01-01.
toordinal(y, m, d) == DaysBeforeYear(y) + DaysBeforeMonth(y, m) + d

YearOf(ord) ==
    LET y0 == (((ord - 1) * 400) \div 146097) + 1 IN
    IF DaysBeforeYear(y0) >= ord THEN y0 - 1
    ELSE IF DaysBeforeYear(y0 + 1) < ord THEN y0 + 1
    ELSE y0

\* date.fromordinal()
fromordinal(ord) ==
    LET y == YearOf(ord)
        n == ord - DaysBeforeYear(y)
        m == CHOOSE k \in 1..12 :
                DaysBeforeMonth(y, k) < n /\ n <= DaysBeforeMonth(y, k) + DaysInMonth(y, k)
    IN [year |-> y, month |-> m, day |-> n - DaysBeforeMonth(y, m)]

\* datetime(year, month, day): ValueError for a day the month does not have.
datetime(y, m, d) ==
    IF d < 1 \/ d > DaysInMonth(y, m)
    THEN Raise("ValueError", "day is out of range for month")
    ELSE Datetime(y, m, d, 0, 0, 0, 0)

\* timedelta(days=d, hours=h, minutes=mi), normalised to days and seconds.
timedelta(d, h, mi) ==
    LET secs == (h % 24) * 3600 + (mi % 1440) * 60 IN
    [days |-> d + (h \div 24) + (mi \div 1440) + (secs \div 86400),
     seconds |-> secs % 86400]

\* dt - td: OverflowError when the result is before 0001-01-01.
minus(dt, td) ==
    LET sod == dt.hour * 3600 + dt.minute * 60 + dt.second
        borrow == IF sod < td.seconds THEN 1 ELSE 0
        sod2 == sod - td.seconds + 86400 * borrow
        ord2 == toordinal(dt.year, dt.month, dt.day) - td.days - borrow
    IN IF ord2 < 1 THEN Raise("OverflowError", "date value out of range")
       ELSE LET date == fromordinal(ord2) IN
            Datetime(date.year, date.month, date.day, sod2 \div 3600,
                     (sod2 % 3600) \div 60, sod2 % 60, dt.microsecond)

\* DEFAULT_FORMAT = "%Y-%m-%d %H:%M:%S": the directives of the format.
DEFAULT_FORMAT == {"%Y", "%m", "%d", "%H", "%M", "%S"}

\* dt.strftime(fmt): the str holding the fields fmt has a directive for; a
\* field without a directive is not in the str (-1).
strftime(dt, fmt) ==
    [kind |-> "str", exc |-> "", msg |-> "",
     year |-> IF "%Y" \in fmt THEN dt.year ELSE -1,
     month |-> IF "%m" \in fmt THEN dt.month ELSE -1,
     day |-> IF "%d" \in fmt THEN dt.day ELSE -1,
     hour |-> IF "%H" \in fmt THEN dt.hour ELSE -1,
     minute |-> IF "%M" \in fmt THEN dt.minute ELSE -1,
     second |-> IF "%S" \in fmt THEN dt.second ELSE -1,
     microsecond |-> IF "%f" \in fmt THEN dt.microsecond ELSE -1]

\* int(s): ValueError for the empty str.
int(digit) ==
    IF digit = <<>> THEN Raise("ValueError", "invalid literal for int()")
    ELSE [kind |-> "int", value |-> IntOf(digit)]

\* ---------------------------------------------------------- DateConverter
MonthNames ==
    <<"enero", "febrero", "marzo", "abril", "mayo", "junio", "julio",
      "agosto", "septiembre", "octubre", "noviembre", "diciembre">>

\* The dict MONTHS: month name -> month number.
MONTHS ==
    [w \in {Text(MonthNames[k]) : k \in 1..12} |->
        CHOOSE k \in 1..12 : Text(MonthNames[k]) = w]

is_yesterday(raw) == In(Text("ayer"), raw)

is_hour(raw) == In(Text("horas"), raw) \/ In(Text("hora"), raw)

is_minutes(raw) == In(Text("minutos"), raw) \/ In(Text("minuto"), raw)

is_days(raw) == In(Text("días"), raw)

convert_from_minutes(digit, now) ==
    LET n == int(digit) IN
    IF n.kind = "raise" THEN n ELSE minus(now, timedelta(0, 0, n.value))

convert_from_hour(digit, now) ==
    LET n == int(digit) IN
    IF n.kind = "raise" THEN n ELSE minus(now, timedelta(0, n.value, 0))

convert_from_yesterday(digit, now) == minus(now, timedelta(1, 0, 0))

convert_from_days(digit, now) ==
    LET n == int(digit) IN
    IF n.kind = "raise" THEN n ELSE minus(now, timedelta(n.value, 0, 0))

\* DateConverter._default: the first word that is a key of MONTHS, then the
\* date of that month and of the day int(self._digit) in the current year.
DateConverter_default(raw, digit, now) ==
    LET found == SelectSeq(split(raw), LAMBDA el : el \in DOMAIN MONTHS) IN
    IF found = <<>> THEN Raise("IndexError", "list index out of range")
    ELSE LET month_name == found[1] IN
         IF month_name = <<>> THEN Raise("ValueError", "Month not found")
         ELSE LET n == int(digit) IN
              IF n.kind = "raise" THEN n
              ELSE datetime(now.year, MONTHS[month_name], n.value)

\* Faulty variant of DateConverter_branch: minutes are tested before hours
\* and days.
DateConverter_branch_minutes_first(raw) ==
    IF is_yesterday(raw) THEN "yesterday"
    ELSE IF is_minutes(raw) THEN "minutes"
    ELSE IF is_hour(raw) THEN "hour"
    ELSE IF is_days(raw) THEN "days"
    ELSE "default"

\* The if/elif chain of DateConverter.convert: the branch taken.
DateConverter_branch(raw) ==
    IF is_yesterday(raw) THEN "yesterday"
    ELSE IF is_hour(raw) THEN "hour"
    ELSE IF is_days(raw) THEN "days"
    ELSE IF is_minutes(raw) THEN "minutes"
    ELSE "default"

\* DateConverter(raw_date).convert() with datetime.now() = now.
DateConverter_convert(raw_date, now) ==
    LET raw == lower(raw_date)
        digit == get_digit(raw)
        branch == DateConverter_branch(raw)
        standard_date ==
            CASE branch = "yesterday" -> convert_from_yesterday(digit, now)
              [] branch = "hour" -> convert_from_hour(digit, now)
              [] branch = "days" -> convert_from_days(digit, now)
              [] branch = "minutes" -> convert_from_minutes(digit, now)
              [] OTHER -> DateConverter_default(raw, digit, now)
    IN IF standard_date.kind = "raise" THEN standard_date
       ELSE strftime(standard_date, DEFAULT_FORMAT)

\* The phrases a relative_date of the site is made of.
DatePhrases ==
    {"Hace", "ayer", "hora", "horas", "minuto", "minutos", "día", "días",
     "de", "marzo", "hoy", "1", "3", "15", "2025"}

\* The number of digits in the text of the phrases ts.
DigitCount(ts) == Len(get_digit(Join(ts)))

DateInputs ==
    {ts \in UNION {[1..n -> DatePhrases] : n \in 0..MaxDateTokens} :
        DigitCount(ts) <= MaxDigits}

\* The values datetime.now() takes: just after midnight of a first of
\* March, and the last second of a leap year with a fraction of a second.
Nows ==
    {Datetime(2025, 3, 1, 0, 0, 30, 0),
     Datetime(2024, 12, 31, 23, 59, 59, 500000)}

\* A DateConverter is about to be built on some relative_date.
InitDate ==
    /\ InitIdle
    /\ site_last_page = 1
    /\ unit_fn = "DateConverter.convert"
    /\ unit_arg \in [tokens : DateInputs, now : Nows]

\* DateConverter(relative_date).convert() returns or raises.
DateConvertCall ==
    /\ unit_fn = "DateConverter.convert"
    /\ unit_out = NotCalled
    /\ unit_out' =
          [branch |-> DateConverter_branch(lower(Join(unit_arg.tokens))),
           value |-> DateConverter_convert(Join(unit_arg.tokens), unit_arg.now)]
    /\ UNCHANGED <<run, site_last_page, site_html, site_outcomes, legacy,
                   unit_fn, unit_arg>>

DateNext == DateConvertCall

DateSpec == InitDate /\ [][DateNext]_vars

\* -------------------------------------------------------- SalaryConverter
\* DECIMAL_PLACES of the constants module: the divisor of the amounts.
DECIMAL_PLACES == 100

RECURSIVE GCD(_, _)
GCD(a, b) == IF b = 0 THEN a ELSE GCD(b, a % b)

\* The float n / d (n >= 0, d > 0), kept exact: whole part and the reduced
\* fraction left over.
Float(n, d) ==
    LET g == GCD(n % d, d) IN
    [whole |-> n \div d, num |-> (n % d) \div g, den |-> d \div g]

\* What SalaryConverter.convert gives: the dict salary, or an exception.
SalaryDict(b, c) ==
    [kind |-> "dict", exc |-> "", msg |-> "", base |-> b, has_commission |-> c]

SalaryRaise(e, m) ==
    [kind |-> "raise", exc |-> e, msg |-> m, base |-> Float(0, 1),
     has_commission |-> FALSE]

\* The argument of SalaryConverter: None or a str.
NoneStr == [kind |-> "None", tokens |-> <<>>]
Str(ts) == [kind |-> "str", tokens |-> ts]

\* SalaryConverter.__init__: (raw_salary or "").strip().lower()
SalaryConverter_init(raw_salary) ==
    lower(strip(IF raw_salary.kind = "None" THEN <<>> ELSE Join(raw_salary.tokens)))

is_monthly(raw) == In(Text("mensual"), raw)

is_hourly(raw) == In(Text("horas"), raw)

has_commission(raw) == In(Text("comisión"), raw)

\* Faulty variant of convert_from_monthly: the amount is not divided.
convert_from_monthly_undivided(raw) ==
    LET digit == get_digit(raw) IN
    IF digit = <<>>
    THEN SalaryRaise("ValueError", "could not convert string to float")
    ELSE [kind |-> "float", value |-> Float(IntOf(digit), 1)]

\* _convert_from_monthly: float(self._get_digit()) / DECIMAL_PLACES
convert_from_monthly(raw) ==
    LET digit == get_digit(raw) IN
    IF digit = <<>>
    THEN SalaryRaise("ValueError", "could not convert string to float")
    ELSE [kind |-> "float", value |-> Float(IntOf(digit), DECIMAL_PLACES)]

\* _convert_from_hourly: self._get_digit() / DECIMAL_PLACES divides a str by
\* an int.
convert_from_hourly(raw) ==
    SalaryRaise("TypeError", "unsupported operand type(s) for /: 'str' and 'int'")

\* Faulty variant of SalaryConverter_default: an amount that is not zero.
SalaryConverter_default_one(raw) ==
    [kind |-> "float", value |-> Float(1, 1)]

\* _default: return 0.0
SalaryConverter_default(raw) ==
    [kind |-> "float", value |-> Float(0, 1)]

\* SalaryConverter(raw_salary).convert()
SalaryConverter_convert(raw_salary) ==
    LET raw == SalaryConverter_init(raw_salary)
        value == IF is_monthly(raw) THEN convert_from_monthly(raw)
                 ELSE IF is_hourly(raw) THEN convert_from_hourly(raw)
                 ELSE SalaryConverter_default(raw)
    IN IF value.kind = "raise" THEN value
       ELSE SalaryDict(value.value, has_commission(raw))

\* The phrases a salary text of the site is made of.
SalaryPhrases ==
    {"$15,000", "$20", "mensual", "(Mensual)", "por hora", "por horas",
     "más comisión", "a convenir"}

SalaryInputs ==
    {NoneStr} \cup
    {Str(ts) : ts \in {x \in UNION {[1..n -> SalaryPhrases] : n \in 0..MaxSalaryTokens} :
                          DigitCount(x) <= MaxDigits}}

\* A SalaryConverter is about to be built on the salary of some record.
InitSalary ==
    /\ InitIdle
    /\ site_last_page = 1
    /\ unit_fn = "SalaryConverter.convert"
    /\ unit_arg \in SalaryInputs

\* SalaryConverter(salary).convert() returns or raises.
SalaryConvertCall ==
    /\ unit_fn = "SalaryConverter.convert"
    /\ unit_out = NotCalled
    /\ unit_out' = SalaryConverter_convert(unit_arg)
    /\ UNCHANGED <<run, site_last_page, site_html, site_outcomes, legacy,
                   unit_fn, unit_arg>>

SalaryNext == SalaryConvertCall

SalarySpec == InitSalary /\ [][SalaryNext]_vars

\* ------------------------------------------------- the normalisation pass
\* The number a number phrase of the site stands for.
NumberOf(t) ==
    CASE t = "1" -> 1 [] t = "3" -> 3 [] t = "15" -> 15 [] t = "2025" -> 2025

\* An input without its leading "Hace".
Core(ts) == IF ts # <<>> /\ ts[1] = "Hace" THEN Tail(ts) ELSE ts

\* The supported relative dates: "ayer", or one number N >= 1 followed by
\* one minutes, hours or days marker.
IsRelative(ts) ==
    \/ Core(ts) = <<"ayer">>
    \/ /\ Len(Core(ts)) = 2
       /\ Core(ts)[1] \in {"1", "3", "15", "2025"}
       /\ Core(ts)[2] \in {"minuto", "minutos", "hora", "horas", "día", "días"}

\* A month name with a day every year has in that month, with or without
\* "de" between them.
IsMonthDay(ts) ==
    /\ Len(ts) \in {2, 3}
    /\ ts[1] \in {"1", "3", "15"}
    /\ ts[Len(ts)] = "marzo"
    /\ Len(ts) = 3 => ts[2] = "de"

\* The well-formed site-native relative dates.
WellFormedDates == {ts \in DateInputs : IsRelative(ts) \/ IsMonthDay(ts)}

\* One record of the data set is about to be normalised: its relative_date
\* is well-formed, its salary is absent (None) or any salary text.
InitNormalize ==
    /\ InitIdle
    /\ site_last_page = 1
    /\ unit_fn = "normalize"
    /\ unit_arg \in [relative_date : WellFormedDates, salary : SalaryInputs,
                     now : Nows]

\* One iteration of the loop over the records: DateConverter.convert, then
\* SalaryConverter.convert unless the first raised.
NormalizeCall ==
    /\ unit_fn = "normalize"
    /\ unit_out = NotCalled
    /\ LET date == DateConverter_convert(Join(unit_arg.relative_date), unit_arg.now) IN
       unit_out' =
          IF date.kind = "raise"
          THEN [kind |-> "raise", absolute_date |-> date,
                salary |-> SalaryRaise("", "not reached")]
          ELSE LET salary == SalaryConverter_convert(unit_arg.salary) IN
               [kind |-> IF salary.kind = "raise" THEN "raise" ELSE "record",
                absolute_date |-> date, salary |-> salary]
    /\ UNCHANGED <<run, site_last_page, site_html, site_outcomes, legacy,
                   unit_fn, unit_arg>>

NormalizeNext == NormalizeCall

NormalizeSpec == InitNormalize /\ [][NormalizeNext]_vars

\* ------------------------------------- the sequential scraper (legacy)
\* main_scraper of compu_trabajo.py: one crawler, one scraper, the pages one
\* after the other.  range(2, 100) is cut at MaxLegacyPages.
\* The scraper issues a fetch on the URL of `page`.
LegacyIssue(L, kind, page, k) ==
    LET f == LegacyArun(kind, page, k) IN
    [L EXCEPT !.pc = IF kind = "available" THEN "check" ELSE kind,
              !.url = page, !.fetch = f, !.fetched = Append(@, f)]

\* An exception leaves the `async with` block: __aexit__ is awaited next.
LegacyRaise(L, e) ==
    [L EXCEPT !.pc = "closing", !.fetch = LegacyArun("none", 0, 0), !.error = e]

\* get_data has returned `data`: `all_offers = await scraper.get_data()` for
\* page 1, `all_offers.extend(offers)` for a later page.  None has no
\* extend (AttributeError) and cannot be iterated (TypeError).  next_page is
\* the next iteration of `for url_idx in range(2, 100)`: set_url and the
\* availability check, or the end of the loop.
LegacyGotData(L, data) ==
    LET L1 == [L EXCEPT !.data = Append(@, data), !.fetch = LegacyArun("none", 0, 0)]
        next_page(M) ==
            IF M.url + 1 > MaxLegacyPages
            THEN [M EXCEPT !.pc = "closing"]
            ELSE LegacyIssue(M, "available", M.url + 1, 0)
    IN
    IF L.url = 1 THEN next_page([L1 EXCEPT !.all_offers = data])
    ELSE IF L.all_offers.kind = "None" THEN LegacyRaise(L1, "AttributeError")
    ELSE IF data.kind = "None" THEN LegacyRaise(L1, "TypeError")
    ELSE next_page([L1 EXCEPT !.all_offers = ListVal(@.items \o data.items)])

\* `async with AsyncWebCrawler(...) as crawler` returns, the scraper is built
\* on JOB_URL and get_data issues the overview fetch of page 1; or
\* __aenter__ raises.
LegacyOpen ==
    /\ legacy.pc = "idle"
    /\ \/ \E a \in Addresses :
            legacy' = LegacyIssue([legacy EXCEPT !.crawler = a], "overview", 1, 0)
       \/ legacy' = [legacy EXCEPT !.pc = "raised", !.error = "Exception"]
    /\ UNCHANGED <<run, unit, site_last_page, site_html, site_outcomes>>

\* `await scraper.is_next_page_available` returns result.success or raises.
LegacyAvailabilityReturn ==
    /\ legacy.pc = "check"
    /\ \/ legacy' = LegacyIssue(legacy, "overview", legacy.url, 0)
       \/ legacy' = [legacy EXCEPT !.pc = "closing", !.fetch = LegacyArun("none", 0, 0),
                                   !.unavailable = legacy.url]
       \/ legacy' = LegacyRaise(legacy, "Exception")
    /\ UNCHANGED <<run, unit, site_last_page, site_html, site_outcomes>>

\* get_data after `await self._get_overview()`.
LegacyOverviewReturn ==
    /\ legacy.pc = "overview"
    /\ \/ legacy' = LegacyRaise(legacy, "Exception")
       \/ \E res \in OverviewResults :
            LET ov == get_overview(legacy.url, res) IN
            IF ~Truthy(ov)
            THEN legacy' = LegacyGotData(legacy, GetDataNoOverview)
            ELSE legacy' = LegacyIssue([legacy EXCEPT !.offers = ov.items, !.idx = 0],
                                       "detail", legacy.url, 0)
    /\ UNCHANGED <<run, unit, site_last_page, site_html, site_outcomes>>

\* One iteration of get_data's loop, which has no try/except: the detail
\* trigger of offers[idx] returns, or it or get_job_details raises.
\* Scraper._get_details writes the one key details, on success only.
LegacyDetailReturn ==
    /\ legacy.pc = "detail"
    /\ \E outcome \in {"ok", "unsuccessful", "raise"} :
        LET k == legacy.idx
            updated == [legacy.offers EXCEPT ![k + 1] =
                          IF outcome = "ok" THEN [@ EXCEPT !.details = TRUE] ELSE @]
            L == [legacy EXCEPT !.offers = updated, !.idx = k + 1]
        IN
        IF outcome = "raise" THEN legacy' = LegacyRaise(legacy, "Exception")
        ELSE IF k + 1 < Len(updated)
             THEN legacy' = LegacyIssue(L, "detail", legacy.url, k + 1)
             ELSE legacy' = LegacyGotData(L, ListVal(updated))
    /\ UNCHANGED <<run, unit, site_last_page, site_html, site_outcomes>>

\* The crawler's __aexit__ returns; an exception under way leaves
\* main_scraper, else json.dump(all_offers, f) writes the file.
LegacyClose ==
    /\ legacy.pc = "closing"
    /\ legacy' =
          IF legacy.error # ""
          THEN [legacy EXCEPT !.pc = "raised", !.crawler = 0]
          ELSE [legacy EXCEPT !.pc = "done", !.crawler = 0,
                              !.files = Append(@, legacy.all_offers)]
    /\ UNCHANGED <<run, unit, site_last_page, site_html, site_outcomes>>

LegacyNext ==
    \/ LegacyOpen
    \/ LegacyAvailabilityReturn
    \/ LegacyOverviewReturn
    \/ LegacyDetailReturn
    \/ LegacyClose

\* The sequential main_scraper is about to be called.
InitLegacy ==
    /\ InitIdle
    /\ site_last_page = MaxLegacyPages
    /\ unit_fn = "none"
    /\ unit_arg = <<>>

LegacySpec == InitLegacy /\ [][LegacyNext]_vars

\* ------------------------------------------------------ derived notions
\* The tasks that hold a semaphore permit.
Holders ==
    {i \in Task : pc[i] \in {"opening", "check", "overview", "detail", "closing"}}

\* The number of AsyncWebCrawler sessions open now, the temporary one included.
OpenSessions ==
    Cardinality({i \in Task : crawler[i] # 0}) + (IF temp_crawler # 0 THEN 1 ELSE 0)

Launched == main_pc \in {"gather", "aggregate", "done"}

\* The lowest task index whose settled value is None, or one past the last.
FirstNone(rs) ==
    IF \E i \in DOMAIN rs : rs[i].kind = "None"
    THEN CHOOSE i \in DOMAIN rs :
            /\ rs[i].kind = "None"
            /\ \A j \in DOMAIN rs : rs[j].kind = "None" => i <= j
    ELSE Len(rs) + 1

\* The concatenation of the list values among rs[1..k].
RECURSIVE ConcatLists(_, _)
ConcatLists(rs, k) ==
    IF k = 0 THEN <<>>
    ELSE ConcatLists(rs, k - 1) \o (IF rs[k].kind = "list" THEN rs[k].items ELSE <<>>)

\* The offers of page p inside a list of offers, in their order there.
OffersOfPage(s, p) == SelectSeq(s, LAMBDA o : o.page = p)

\* ------------------------------------------------------------------- C1
\* C1: for max_pages >= 1 and max_concurrent_browsers >= 1, the number of
\* crawler sessions open at the same moment, the temporary crawler of
\* main_scraper included, never exceeds max_concurrent_browsers.
C1_SessionsWithinCap ==
    (max_pages >= 1 /\ max_concurrent_browsers >= 1)
        => OpenSessions <= max_concurrent_browsers

\* The cap is reached with two sessions while another task waits for a permit.
C1_Witness ==
    /\ max_pages >= 1
    /\ max_concurrent_browsers = 2
    /\ OpenSessions = 2
    /\ \E i \in Task : pc[i] = "waiting"

\* ------------------------------------------------------------------- C2
\* C2: once main_scraper has aggregated, all_offers is the concatenation of
\* the list results of the pages before the first page whose result is
\* None, and holds no offer of that page or a later one.
C2_FirstNoneTruncates ==
    main_pc = "done" =>
        LET k == FirstNone(result) IN
        /\ all_offers = ConcatLists(result, k - 1)
        /\ \A n \in DOMAIN all_offers : all_offers[n].page < k

\* Page 1 has offers, page 2 is not available, page 3 completed with offers:
\* only those of page 1 are kept.
C2_Witness ==
    /\ main_pc = "done"
    /\ Len(result) >= 3
    /\ Truthy(result[1])
    /\ result[2] = NoneVal
    /\ Truthy(result[3])
    /\ all_offers = result[1].items

\* ------------------------------------------------------------------- C3
\* C3: whatever the order in which the page tasks completed, all_offers is
\* in ascending page number and, within a page, in ascending listing index,
\* and each surviving page contributes exactly its own list.
C3_OutputInPageOrder ==
    main_pc = "done" =>
        /\ \A a, b \in DOMAIN all_offers :
              a < b =>
                 \/ all_offers[a].page < all_offers[b].page
                 \/ /\ all_offers[a].page = all_offers[b].page
                    /\ all_offers[a].idx < all_offers[b].idx
        /\ \A i \in Task :
              OffersOfPage(all_offers, tasks[i].page_num) =
                 IF i < FirstNone(result) /\ result[i].kind = "list"
                 THEN result[i].items ELSE <<>>

\* A task settled before a task of a lower page number, and two pages with
\* two offers each are in the output.
C3_Witness ==
    /\ main_pc = "done"
    /\ late
    /\ Len(all_offers) = 4
    /\ all_offers[1].page = 1
    /\ all_offers[4].page = 2

C5_SessionAndPermitReleased ==
    /\ \A i \in Task : pc[i] = "done" => crawler[i] = 0
    /\ Launched => sem_value + Cardinality(Holders) = max_concurrent_browsers
    /\ main_pc \in {"aggregate", "done"} =>
          /\ OpenSessions = 0
          /\ Holders = {}
          /\ sem_waiters = <<>>
          /\ sem_value = max_concurrent_browsers

\* Aggregation starts after one task returned a list, one returned None and
\* one left through the except clause.
C5_Witness ==
    /\ main_pc = "aggregate"
    /\ \E i, j, k \in Task :
          /\ Truthy(ret[i])
          /\ ret[j].kind = "None"
          /\ ret[k].kind = "Exception"

\* ------------------------------------------------------------------- C6
\* C6: for max_pages >= 1 and max_concurrent_browsers >= 1, when every
\* awaited call returns, every launched task eventually acquires a permit
\* and settles with a result, also behind a page found not available, and
\* main_scraper eventually aggregates.
C6_EveryTaskSettles ==
    /\ \A i \in 1..MaxPages :
          /\ (max_pages >= 1 /\ i \in Task /\ pc[i] \in {"new", "waiting"})
                ~> (i \in Task /\ i \in Holders \cup {j \in Task : pc[j] = "done"})
          /\ (max_pages >= 1 /\ i \in Task)
                ~> (i \in Task /\ pc[i] = "done" /\ result[i] # Pending)
    /\ (max_pages >= 1 /\ main_pc = "gather") ~> (main_pc = "aggregate")

\* With more pages than permits, a task behind a page found not available
\* has run to a list result when main_scraper aggregates.
C6_Witness ==
    /\ main_pc = "aggregate"
    /\ max_pages > max_concurrent_browsers
    /\ \E i, j \in Task : i < j /\ result[i] = NoneVal /\ Truthy(result[j])

\* ------------------------------------------------------------------- C7
\* C7: two tasks with an open crawler never have the same crawler nor the
\* same session_id, and every fetch in flight runs on the crawler and the
\* session_id of the task that issued it and of no other task.
C7_SessionOwnedByOneTask ==
    /\ \A i, j \in Task :
          (i # j /\ crawler[i] # 0 /\ crawler[j] # 0) =>
              /\ crawler[i] # crawler[j]
              /\ SessionId(variant, crawler[i]) # SessionId(variant, crawler[j])
    /\ \A i \in Task :
          fetch[i] # NoFetch =>
              /\ crawler[i] # 0
              /\ fetch[i].crawler = crawler[i]
              /\ \A j \in Task :
                    (j # i /\ fetch[j] # NoFetch) =>
                        /\ fetch[j].crawler # fetch[i].crawler
                        /\ fetch[j].session_id # fetch[i].session_id

\* Two tasks have a fetch in flight at the same moment.
C7_Witness ==
    \E i, j \in Task :
        /\ i # j
        /\ fetch[i].kind = "detail"
        /\ fetch[j].kind = "overview"

\* ------------------------------------------------------------------- C8
\* C8: no file is written before main_scraper has aggregated; at its end
\* there is one file, holding the aggregated list, when the surviving pages
\* yield at least one offer, and no file when they yield none.
C8_FileIffOffers ==
    /\ main_pc # "done" => files = <<>>
    /\ main_pc = "done" =>
          LET surviving == ConcatLists(result, FirstNone(result) - 1) IN
          IF surviving = <<>>
          THEN files = <<>>
          ELSE files = <<surviving>> /\ files[1] = all_offers

\* Page 1 is empty, page 2 not available, page 3 has offers: no file.
C8_Witness ==
    /\ main_pc = "done"
    /\ Len(result) >= 3
    /\ result[1] = ListVal(<<>>)
    /\ result[2] = NoneVal
    /\ Truthy(result[3])
    /\ files = <<>>

\* ------------------------------------------------------------------- C9
\* C9: for every value of max_pages, main_scraper launches exactly one task
\* per page number in 1..max_pages and no other; task i is page i, page 1
\* uses base_job_url and page n >= 2 uses url_pattern with n substituted.
C9_OneTaskPerPage ==
    Launched =>
        /\ Len(tasks) = max_pages
        /\ \A i \in DOMAIN tasks :
              /\ tasks[i].page_num = i
              /\ tasks[i].url = IF i = 1 THEN base_job_url(variant)
                                ELSE Format(url_pattern(variant), i)
              /\ \A k \in DOMAIN tasks[i].url : tasks[i].url[k] # Hole

C11_NoneOnlyForAbsentPage ==
    (unit_fn = "get_data" /\ unit_out # NotCalled) =>
        /\ unit_out = NoneVal =>
              (unit_arg.overview.success /\ unit_arg.overview.n = 0)
        /\ (~unit_arg.overview_raises /\ ~unit_arg.overview.success) =>
              unit_out # NoneVal

\* ------------------------------------------------------------------ C12
\* C12: in the aggregated list of one run of main_scraper no two offers
\* carry the same offer_id, whatever the site returned for each page.
C12_OfferIdsUnique ==
    main_pc = "done" =>
        \A a, b \in DOMAIN all_offers :
            (a # b /\ all_offers[a].offer_id # NoOfferId) =>
                all_offers[a].offer_id # all_offers[b].offer_id

\* ------------------------------------------------------------------ C13
\* C13: for the adapters of both sites, get_job_details returns a detail
\* record and does not raise, whatever subset of the detail sub-elements
\* the rendered markup holds; a missing sub-element leaves its field absent
\* or empty.
C13_DetailsTolerateMissing ==
    (unit_fn = "get_job_details" /\ unit_out # NotCalled
        /\ unit_arg.adapter \in {"compu_trabajo", "occ"}) =>
        /\ unit_out.kind = "dict"
        /\ "description" \notin unit_arg.markup => unit_out.description # "text"
        /\ "req_list" \notin unit_arg.markup => unit_out.requirements # "text"
        /\ "salary_icon" \notin unit_arg.markup => unit_out.salary # "text"

\* ------------------------------------------------------------------ C14
\* The relative markers among the phrases of an input, as the kinds of
\* branch they select.
MarkersOf(ts) ==
    {b \in {"yesterday", "minutes", "hour", "days"} :
        \E k \in DOMAIN ts :
            \/ b = "yesterday" /\ ts[k] = "ayer"
            \/ b = "minutes" /\ ts[k] \in {"minuto", "minutos"}
            \/ b = "hour" /\ ts[k] \in {"hora", "horas"}
            \/ b = "days" /\ ts[k] = "días"}

\* The first entry of the priority list `order` that is in `present`.
FirstOf(order, present) ==
    order[CHOOSE i \in DOMAIN order :
            /\ order[i] \in present
            /\ \A j \in DOMAIN order : j < i => order[j] \notin present]

DateCalled == unit_fn = "DateConverter.convert" /\ unit_out # NotCalled

\* C14 as stated: on an input with two or more markers, convert takes the
\* branch of the first marker present in the order yesterday, minutes,
\* hours, days.
C14_MinutesBeforeHours ==
    (DateCalled /\ Cardinality(MarkersOf(unit_arg.tokens)) >= 2) =>
        unit_out.branch =
            FirstOf(<<"yesterday", "minutes", "hour", "days">>,
                    MarkersOf(unit_arg.tokens))

\* C14 as amended: on an input with two or more markers, convert takes the
\* branch of the first marker present in the order yesterday ("ayer"),
\* hours ("hora"), days ("días"), minutes ("minuto"); the month-name
\* fallback comes last.
C14_HoursAndDaysBeforeMinutes ==
    (DateCalled /\ Cardinality(MarkersOf(unit_arg.tokens)) >= 2) =>
        /\ unit_out.branch =
              FirstOf(<<"yesterday", "hour", "days", "minutes">>,
                      MarkersOf(unit_arg.tokens))
        /\ unit_out.branch # "default"

\* "3 horas minutos" at 00:00:30 of March 1 takes the hours branch: the
\* result is 21:00:30 of the day before.
C14_Witness ==
    /\ DateCalled
    /\ unit_arg.tokens = <<"3", "horas", "minutos">>
    /\ unit_arg.now.hour = 0
    /\ unit_out.branch = "hour"
    /\ unit_out.value.kind = "str"
    /\ unit_out.value.hour = 21
    /\ unit_out.value.minute = 0

\* ------------------------------------------------------------------ C15
\* The offset, in seconds, such an input implies.
OffsetOf(ts) ==
    LET c == Core(ts) IN
    IF c = <<"ayer">> THEN 86400
    ELSE NumberOf(c[1]) *
            (CASE c[2] \in {"minuto", "minutos"} -> 60
               [] c[2] \in {"hora", "horas"} -> 3600
               [] c[2] \in {"día", "días"} -> 86400)

\* How far the timestamp a returned str denotes lies before the datetime
\* now: whole seconds and microseconds.
DistanceBefore(now, str) ==
    LET us == now.microsecond - (IF str.microsecond = -1 THEN 0 ELSE str.microsecond)
        secs == (toordinal(now.year, now.month, now.day)
                    - toordinal(str.year, str.month, str.day)) * 86400
                + (now.hour - str.hour) * 3600 + (now.minute - str.minute) * 60
                + (now.second - str.second)
    IN [seconds |-> secs, microseconds |-> us]

\* C15: for every supported relative date, convert yields a timestamp
\* strictly before the reference time that lies exactly the implied offset
\* (1 day, N minutes, N hours or N days) before it.
C15_ExactOffset ==
    (DateCalled /\ IsRelative(unit_arg.tokens)) =>
        /\ unit_out.value.kind = "str"
        /\ OffsetOf(unit_arg.tokens) > 0
        /\ DistanceBefore(unit_arg.now, unit_out.value) =
              [seconds |-> OffsetOf(unit_arg.tokens), microseconds |-> 0]

\* ------------------------------------------------------------------ C16
\* The month names among the phrases of an input, as month numbers.
MonthsOf(ts) ==
    {k \in 1..12 : \E i \in DOMAIN ts : ts[i] = MonthNames[k]}

\* The numbers among the phrases of an input.
NumbersOf(ts) ==
    {NumberOf(ts[i]) : i \in {j \in DOMAIN ts : ts[j] \in {"1", "3", "15", "2025"}}}

\* No relative marker, singular or plural, is among the phrases.
NoRelativeMarker(ts) ==
    MarkersOf(ts) = {} /\ \A i \in DOMAIN ts : ts[i] # "día"

\* C16: for every input with no relative marker that holds a month name of
\* MONTHS and a day number d valid for that month, convert returns the date
\* of the reference year, that month and day d, at 00:00:00.
C16_MonthAndDay ==
    (/\ DateCalled
     /\ NoRelativeMarker(unit_arg.tokens)
     /\ \E m \in MonthsOf(unit_arg.tokens) :
           \E d \in NumbersOf(unit_arg.tokens) :
               d \in 1..DaysInMonth(unit_arg.now.year, m))
    => /\ unit_out.value.kind = "str"
       /\ unit_out.value.year = unit_arg.now.year
       /\ unit_out.value.month \in MonthsOf(unit_arg.tokens)
       /\ unit_out.value.day \in NumbersOf(unit_arg.tokens)
       /\ unit_out.value.hour = 0
       /\ unit_out.value.minute = 0
       /\ unit_out.value.second = 0

\* ------------------------------------------------------------------ C17
\* C17: when the input matches no relative marker and holds no month name
\* of MONTHS, convert raises the ValueError "Month not found ..." of
\* _default and no other exception.
C17_MonthNotFoundError ==
    (/\ DateCalled
     /\ MarkersOf(unit_arg.tokens) = {}
     /\ MonthsOf(unit_arg.tokens) = {})
    => /\ unit_out.value.kind = "raise"
       /\ unit_out.value.exc = "ValueError"
       /\ unit_out.value.msg = "Month not found"

\* ------------------------------------------------------------------ C19
SalaryCalled == unit_fn = "SalaryConverter.convert" /\ unit_out # NotCalled

\* The amount a phrase of a salary text shows, and how many digits it has.
AmountOf(t) ==
    CASE t = "$15,000" -> [value |-> 15000, scale |-> 100000]
      [] t = "$20" -> [value |-> 20, scale |-> 100]
      [] OTHER -> [value |-> 0, scale |-> 1]

\* The integer formed by the digits of the phrases ts, left to right.
RECURSIVE IntegerOfDigits(_)
IntegerOfDigits(ts) ==
    IF ts = <<>> THEN 0
    ELSE LET a == AmountOf(ts[Len(ts)]) IN
         IntegerOfDigits(SubSeq(ts, 1, Len(ts) - 1)) * a.scale + a.value

HasPhrase(ts, set) == \E k \in DOMAIN ts : ts[k] \in set

C20_HourlyDividedBy100 ==
    (/\ SalaryCalled
     /\ unit_arg.kind = "str"
     /\ HasPhrase(unit_arg.tokens, {"por hora", "por horas"})
     /\ ~HasPhrase(unit_arg.tokens, {"mensual", "(Mensual)"})
     /\ HasPhrase(unit_arg.tokens, {"$15,000", "$20"}))
    => LET n == IntegerOfDigits(unit_arg.tokens) IN
       /\ unit_out.kind = "dict"
       /\ unit_out.base = Float(n, 100)

\* ------------------------------------------------------------------ C18
\* C18: the normalisation pass never raises: for every record whose
\* relative_date is well-formed and whose salary is absent, empty or any
\* salary text of the site, both converters return a value.
C18_NormalizationNeverRaises ==
    (unit_fn = "normalize" /\ unit_out # NotCalled) =>
        /\ unit_out.kind = "record"
        /\ unit_out.absolute_date.kind = "str"
        /\ unit_out.salary.kind = "dict"

\* ------------------------------------------------------------------ C21
\* C21: for every input, convert returns a result whose has_commission is
\* true exactly when the commission marker is in the input, whichever
\* branch computes base; "$20 por hora más comisión" gives true.
C21_CommissionIffMarker ==
    SalaryCalled =>
        /\ unit_out.kind = "dict"
        /\ unit_out.has_commission =
              (unit_arg.kind = "str" /\ HasPhrase(unit_arg.tokens, {"más comisión"}))

\* ------------------------------------------------------------------ C22
\* C22: convert returns {base: 0.0, has_commission: false} for None and for
\* the empty string, and base 0.0 for every input with neither the monthly
\* marker nor the hourly marker "horas".
C22_DefaultIsZero ==
    SalaryCalled =>
        /\ unit_arg \in {NoneStr, Str(<<>>)} =>
              unit_out = SalaryDict([whole |-> 0, num |-> 0, den |-> 1], FALSE)
        /\ (unit_arg.kind = "str"
             /\ ~HasPhrase(unit_arg.tokens, {"mensual", "(Mensual)", "por horas"}))
           => (unit_out.kind = "dict"
               /\ unit_out.base = [whole |-> 0, num |-> 0, den |-> 1])

\* None was converted to base 0.0 without commission.
C22_Witness ==
    /\ SalaryCalled
    /\ unit_arg = NoneStr
    /\ unit_out = SalaryDict([whole |-> 0, num |-> 0, den |-> 1], FALSE)

\* ------------------------------------------------------------------ C23
\* The markup of page p on a site that renders each page in one way.
SiteMarkup(p) == CHOOSE m \in site_html[p] : TRUE

\* The availability check of task i returned false: the task went through
\* the crawler block without an exception, on a page the check rejects.
CheckReturnedFalse(i) ==
    /\ tasks[i].page_num > 1
    /\ ret[i] # ExceptionVal
    /\ ~is_next_page_available(variant, SiteMarkup(tasks[i].page_num))

WithSession == {i \in Task : crawler[i] # 0}

\* C24, as stated: every open session, whoever opened it, belongs to a task
\* that holds a semaphore permit.
C24_EverySessionUnderPermit ==
    /\ temp_crawler = 0
    /\ WithSession \subseteq Holders

\* C24: every session a page task has open belongs to a permit holder (the
\* task opens it after acquiring and closes it before releasing); the one
\* other session, main_scraper's temporary crawler, is open only before
\* the semaphore is created and the tasks are launched.
C24_TaskSessionsUnderPermit ==
    /\ WithSession \subseteq Holders
    /\ temp_crawler # 0 => (~Launched /\ Task = {})

\* One permit holder has its session open, another holds a permit and has
\* not opened its session yet, a third task waits for a permit.
C24_Witness ==
    \E i, j, k \in Task :
        /\ i \in Holders /\ crawler[i] # 0
        /\ j \in Holders /\ crawler[j] = 0
        /\ pc[k] = "waiting"

\* ------------------------------------------------------------------ C25
\* What a step may do to the fetch task i has in flight: the first fetch
\* is the availability check for a page above 1 and the overview fetch for
\* page 1; the overview fetch follows the availability check; the detail
\* trigger of index 0 follows the overview fetch, that of index k + 1 the
\* one of index k; a fetch that has returned is followed by one fetch at
\* most, on the task's own crawler.
FetchStepInOrder(i) ==
    LET f == fetch[i]
        g == fetch'[i]
    IN f # g =>
        /\ g # NoFetch => g.crawler = crawler'[i]
        /\ \/ /\ f = NoFetch
              /\ pc[i] = "opening"
              /\ g.kind = IF tasks[i].page_num > 1 THEN "available" ELSE "overview"
           \/ /\ f.kind = "available"
              /\ g = NoFetch \/ g.kind = "overview"
           \/ /\ f.kind = "overview"
              /\ g = NoFetch \/ (g.kind = "detail" /\ g.idx = 0)
           \/ /\ f.kind = "detail"
              /\ g = NoFetch \/ (g.kind = "detail" /\ g.idx = f.idx + 1)

\* C25: within one page task the fetches on its session come one after the
\* other and in order: availability check (pages >= 2), overview fetch,
\* then the detail triggers in ascending listing index; no session has two
\* fetches in flight.
C25_FetchesInOrder ==
    /\ [](\A i, j \in Task :
            (i # j /\ fetch[i] # NoFetch /\ fetch[j] # NoFetch) =>
                fetch[i].session_id # fetch[j].session_id)
    /\ [][\A i \in Task : FetchStepInOrder(i)]_vars

\* The task of a page above 1 has the detail trigger of its second listing
\* in flight.
C25_Witness ==
    \E i \in Task :
        /\ tasks[i].page_num > 1
        /\ pc[i] = "detail"
        /\ fetch[i].kind = "detail"
        /\ fetch[i].idx = 1
        /\ offers[i][1].details

\* ------------------------------------------------------------------ C26
AllSettled == \A i \in Task : pc[i] = "done" /\ result[i] # Pending

\* The local state of page task i.
TaskLocal(i) ==
    <<crawler[i], fetch[i], offers[i], idx[i], ret[i], failed[i], result[i]>>

\* A step of the page tasks touches the local state of one task at most;
\* besides it, the semaphore alone changes: its counter, its queue and the
\* waiter it wakes.
TasksShareOnlySemaphore ==
    Task' = Task =>
        /\ \A i, j \in Task :
              (TaskLocal(i)' # TaskLocal(i) /\ TaskLocal(j)' # TaskLocal(j)) => i = j
        /\ \A i, j \in Task :
              (i # j /\ pc'[i] # pc[i] /\ pc'[j] # pc[j]) =>
                  \/ pc[i] = "waiting" /\ pc'[i] = "opening" /\ pc'[j] = "done"
                  \/ pc[j] = "waiting" /\ pc'[j] = "opening" /\ pc'[i] = "done"
        /\ (\E i \in Task : TaskLocal(i)' # TaskLocal(i) \/ pc'[i] # pc[i]) =>
              UNCHANGED <<main_pc, tasks, results, all_offers, successful_pages, files>>

\* C26: main_scraper's results, all_offers and successful_pages are not
\* written before every launched page task has settled, and the running
\* page tasks share no state that changes but the semaphore.
C26_AggregationAfterAllSettle ==
    /\ []((main_pc \in {"aggregate", "done"} \/ results # <<>> \/ all_offers # <<>>
            \/ successful_pages # 0) => (Launched /\ AllSettled))
    /\ [][/\ <<results, all_offers, successful_pages>>' #
                <<results, all_offers, successful_pages>> => AllSettled
           /\ TasksShareOnlySemaphore]_vars

\* main_scraper aggregated two pages' offers after two tasks had run side
\* by side and settled out of page order.
C26_Witness ==
    /\ main_pc = "done"
    /\ max_concurrent_browsers = 2
    /\ late
    /\ AllSettled
    /\ successful_pages >= 2
    /\ Len(all_offers) >= 2

\* ------------------------------------------------------------------ C27
\* The sum of the lengths of the list values among rs[1..k].
RECURSIVE SumOfLengths(_, _)
SumOfLengths(rs, k) ==
    IF k = 0 THEN 0
    ELSE SumOfLengths(rs, k - 1) + (IF rs[k].kind = "list" THEN Len(rs[k].items) ELSE 0)

\* The pages with a list result before the first None result.
PagesBeforeFirstNone(rs) ==
    {i \in DOMAIN rs : i < FirstNone(rs) /\ rs[i].kind = "list"}

\* C27: at the end of main_scraper, successful_pages is the number of pages
\* with a list result before the first None result, it is at most the
\* number of launched tasks, and len(all_offers) is the sum of the lengths
\* of those pages' lists.
C27_ReportedTotals ==
    main_pc = "done" =>
        /\ successful_pages = Cardinality(PagesBeforeFirstNone(result))
        /\ successful_pages <= Len(tasks)
        /\ Len(all_offers) = SumOfLengths(result, FirstNone(result) - 1)

\* Page 1 gave an empty list, page 2 two offers, page 3 was not available:
\* two pages processed of three launched, two offers.
C27_Witness ==
    /\ main_pc = "done"
    /\ Len(tasks) = 3
    /\ result[1] = ListVal(<<>>)
    /\ result[2].kind = "list" /\ Len(result[2].items) = 2
    /\ result[3] = NoneVal
    /\ successful_pages = 2
    /\ Len(all_offers) = 2

\* ------------------------------------------------------------------ C29
GetDataReturnedList ==
    unit_fn = "get_data" /\ unit_out # NotCalled /\ unit_out.kind = "list"

C30_EnrichmentKeepsOffers ==
    GetDataReturnedList =>
        LET ov == OverviewList(unit_arg.page_num, unit_arg.overview.n) IN
        /\ unit_arg.overview.success
        /\ Len(unit_out.items) = Len(ov)
        /\ \A k \in DOMAIN ov :
              /\ unit_out.items[k].page = ov[k].page
              /\ unit_out.items[k].idx = ov[k].idx

\* get_data returned two offers in the overview's order: the detail step of
\* the first one raised in get_job_details, that of the second succeeded.
C30_Witness ==
    /\ GetDataReturnedList
    /\ unit_arg.overview.n = 2
    /\ unit_arg.details[1] = "details_raise"
    /\ unit_arg.details[2] = "ok"
    /\ Len(unit_out.items) = 2
    /\ unit_out.items[1].idx = 0 /\ ~unit_out.items[1].details
    /\ unit_out.items[2].idx = 1 /\ unit_out.items[2].details

\* ------------------------------------------------------------------ C31
\* How the awaited calls of page p end, on a site and a browser that answer
\* them in one way.
ScriptedAnswer(p) ==
    [open |-> CHOOSE x \in site_outcomes[p].open : TRUE,
     check |-> CHOOSE x \in site_outcomes[p].check : TRUE,
     available |-> (CHOOSE m \in site_html[p] : TRUE) # {},
     overview |-> CHOOSE x \in site_outcomes[p].overview : TRUE]

\* What max_pages and the per-page outcomes alone determine, whichever
\* orchestrator runs and whatever max_concurrent_browsers is: the
\* aggregated list, the processed-page count and whether a file is written.
OutputOfOutcomes ==
    main_scraper(max_pages, [p \in 1..ScriptPages |-> ScriptedAnswer(p)],
                 [k \in 1..MaxOffers |-> "ok"])

OutputIsOfOutcomes ==
    /\ all_offers = OutputOfOutcomes.all_offers
    /\ successful_pages = OutputOfOutcomes.successful_pages
    /\ (files # <<>>) = OutputOfOutcomes.writes

\* C31, as stated: a run of either orchestrator that has ended gave the
\* aggregated list, the processed-page count and the write decision that
\* max_pages and the per-page outcomes determine, so both give the same.
C31_OrchestratorsEquivalent ==
    main_pc \in {"done", "failed"} => OutputIsOfOutcomes

\* C31: a run of either orchestrator that reached its end after launching
\* its page tasks gave the aggregated list, the processed-page count and
\* the write decision that max_pages and the per-page outcomes determine;
\* the generic orchestrator launches them only when its temporary crawler
\* has opened.
C31_EquivalentOnceLaunched ==
    /\ main_pc = "done" => OutputIsOfOutcomes
    /\ main_pc = "failed" => (variant = "mixin" /\ tasks = <<>>)

\* The OCC orchestrator ended a run of three pages with two browsers: page
\* 1 gave offers, the task of page 2 failed, page 3 gave offers, tasks
\* settled out of page order, and the output is the one the outcomes give.
C31_Witness ==
    /\ variant = "occ"
    /\ main_pc = "done"
    /\ max_pages = 3
    /\ max_concurrent_browsers = 2
    /\ late
    /\ Truthy(result[1])
    /\ ret[2] = ExceptionVal
    /\ Truthy(result[3])
    /\ OutputIsOfOutcomes
    /\ Len(all_offers) = Len(result[1].items) + Len(result[3].items)

\* ------------------------------------------------------------------ C32
\* The fetches of the sequential scraper go through the pages in ascending
\* order from page 1, without leaving a page out, all in one session.
LegacyPagesAscending ==
    \A a \in DOMAIN legacy.fetched :
        /\ legacy.fetched[a].session_id = legacy.fetched[1].session_id
        /\ IF a = 1 THEN legacy.fetched[a].page = 1
           ELSE legacy.fetched[a].page \in
                   {legacy.fetched[a - 1].page, legacy.fetched[a - 1].page + 1}

\* Once a page k is reported not available, the availability check of k is
\* the last fetch and get_data has returned for the pages 1..k-1.
LegacyStopsAtUnavailable ==
    legacy.unavailable # 0 =>
        /\ legacy.pc \in {"closing", "done", "raised"}
        /\ legacy.fetch = LegacyArun("none", 0, 0)
        /\ legacy.fetched[Len(legacy.fetched)] =
              LegacyArun("available", legacy.unavailable, 0)
        /\ Len(legacy.data) = legacy.unavailable - 1

\* C32: the sequential scraper visits the pages in ascending order one at
\* a time in one session and fetches nothing after the first page reported
\* not available; whatever the pages answer, failed overview fetches
\* included, main_scraper raises nothing of its own, and at its end it has
\* written one file with the offers of the pages before that page,
\* concatenated in page order.
C32_SequentialScraper ==
    /\ LegacyPagesAscending
    /\ LegacyStopsAtUnavailable
    /\ legacy.error \in {"", "Exception"}
    /\ legacy.pc = "done" =>
          legacy.files = <<ListVal(ConcatLists(legacy.data, Len(legacy.data)))>>

====
